---------------------------- MODULE Spec2Model ----------------------------
(***************************************************************************)
(* Tiny RTC board firmware (main.c): the DS1307 real-time clock and the    *)
(* AT24C32 EEPROM behind the i2c wrapper.  The device-profile accessors,   *)
(* rtc_init, the time codec and main are translated from src/main.c; the   *)
(* i2c wrapper (i2c/i2c.h) and the two chips are not part of the sources   *)
(* and are modelled from the design text (sections 4.1, 4.2, 5, 6, 7).     *)
(***************************************************************************)
EXTENDS Integers, Sequences, FiniteSets, TLC

VARIABLES bus, last, lastwr, ncalls, pc

vars == <<bus, last, lastwr, ncalls, pc>>

---------------------------------------------------------------------------
(* Bounds of the model *)

\* number of API calls of one behaviour of the harness
MaxCalls == 2
\* number of passes of main's endless loop that are followed
MaxLoops == 2

---------------------------------------------------------------------------
(* Program constants, src/main.c *)

RTC_REG_START_TIME == 0
RTC_REG_RAM_BUF_START == 8
RTC_RAM_SIZE == 56
EEPROM_SIZE == 4096

\* "EEPROM_Dummy_data" and "RTC_RAM_Dummy_data" with their terminating NUL
Dummy_EEPROM ==
    <<69, 69, 80, 82, 79, 77, 95, 68, 117, 109, 109, 121, 95, 100, 97, 116, 97, 0>>
Dummy_RTC_RAM ==
    <<82, 84, 67, 95, 82, 65, 77, 95, 68, 117, 109, 109, 121, 95, 100, 97, 116, 97, 0>>

\* the accessors' bounds error, "return -1"
BOUNDS_ERR == -1

---------------------------------------------------------------------------
(* C arithmetic *)

RECURSIVE Pow2(_)
Pow2(n) == IF n = 0 THEN 1 ELSE 2 * Pow2(n - 1)

\* conversion of a value to an unsigned type of w bits (argument passing)
ToUint(w, x) == x % Pow2(w)

RECURSIVE BitAnd(_, _)
BitAnd(a, b) ==
    IF a = 0 \/ b = 0 THEN 0
    ELSE (a % 2) * (b % 2) + 2 * BitAnd(a \div 2, b \div 2)

ShiftRight(a, n) == a \div Pow2(n)

\* faulty variant of strlen: the size of the array, terminating NUL included
strlen_sizeof(s) == Len(s)

\* strlen: the number of bytes before the first NUL
strlen(s) == (CHOOSE i \in 1..Len(s) : s[i] = 0 /\ \A j \in 1..(i - 1) : s[j] # 0) - 1

\* A uint8_t * argument points at an object of the caller: a string of the
\* program, a zeroed array (memset(.., 0, ..)), or a data buffer whose byte i
\* is (seed + i) mod 256.  Deref(p, i) is the byte p[i - 1].
Ptr(obj, seed) == [obj |-> obj, seed |-> seed]

Deref(p, i) ==
    CASE p.obj = "Dummy_EEPROM" -> Dummy_EEPROM[i]
      [] p.obj = "Dummy_RTC_RAM" -> Dummy_RTC_RAM[i]
      [] p.obj = "zero" -> 0
      [] OTHER -> (p.seed + i) % 256

\* the first n bytes behind p
Bytes(p, n) == [i \in 1..n |-> Deref(p, i)]

Min(a, b) == IF a < b THEN a ELSE b

---------------------------------------------------------------------------
(* The two chips on the bus (design text 4.2, 6) *)

DS1307 == "DS1307"
AT24C32 == "AT24C32"

\* DS1307: 64 registers, the register pointer wraps from 0x3F to 0x00
DS_REGS == 64
\* AT24C32: 32-byte write pages, 4096 cells that read as 0xFF when erased
EE_PAGE == 32

\* the content of device `d` at cell a
CellAt(d, a) == IF a \in DOMAIN d.mem THEN d.mem[a] ELSE d.fill

\* what a cell map looks like with the cells equal to the fill left out
Normal(mem, fill) ==
    LET keep == {a \in DOMAIN mem : mem[a] # fill}
    IN  [a \in keep |-> mem[a]]

\* DS1307 after an acknowledged write of <<reg>> \o data: byte i (from 0) goes
\* to register (reg + i) mod 64, a later byte replacing an earlier one
DsWrite(d, reg, data) ==
    LET n == Len(data)
        start == reg % DS_REGS
        hit == {(start + i) % DS_REGS : i \in 0..(Min(n, DS_REGS) - 1)}
        first(a) == (a - start) % DS_REGS
        lastAt(a) == first(a) + DS_REGS * ((n - 1 - first(a)) \div DS_REGS)
        mem == [a \in (DOMAIN d.mem) \cup hit |->
                   IF a \in hit THEN data[lastAt(a) + 1] ELSE d.mem[a]]
    IN  [d EXCEPT !.mem = Normal(mem, d.fill), !.ptr = (start + n) % DS_REGS]

\* AT24C32 after an acknowledged write of <<hi, lo>> \o data: the bytes stay
\* inside the 32-byte page of the start address and roll over in it
EeWrite(d, reg, data) ==
    LET n == Len(data)
        start == reg % EEPROM_SIZE
        base == start - (start % EE_PAGE)
        off == start % EE_PAGE
        cell(i) == base + ((off + i) % EE_PAGE)
        hit == {cell(i) : i \in 0..(Min(n, EE_PAGE) - 1)}
        first(a) == (a - start) % EE_PAGE
        lastAt(a) == first(a) + EE_PAGE * ((n - 1 - first(a)) \div EE_PAGE)
        mem == [a \in (DOMAIN d.mem) \cup hit |->
                   IF a \in hit THEN data[lastAt(a) + 1] ELSE d.mem[a]]
    IN  [d EXCEPT !.mem = Normal(mem, d.fill),
                  !.ptr = IF n = 0 THEN start ELSE cell(n)]

\* the n bytes a read transaction streams from the register pointer
DevRead(d, size, n) ==
    LET set == DOMAIN d.mem
    IN  [i \in 1..n |->
            LET a == (d.ptr + i - 1) % size
            IN  IF a \in set THEN d.mem[a] ELSE d.fill]

DevSize(dev) == IF dev = DS1307 THEN DS_REGS ELSE EEPROM_SIZE

---------------------------------------------------------------------------
(* Bus transaction primitive (design text 6): one blocking transaction,   *)
(* acknowledged or not.  A call context c carries the chips, the           *)
(* transactions issued so far, the acknowledgements still to come, the     *)
(* status st of the call (a failure stays) and the bytes read.             *)

I2C_OK == 0
I2C_ERR == 1

Ctx(b, acks) == [bus |-> b, txs |-> <<>>, acks |-> acks, st |-> I2C_OK, rd |-> <<>>]

\* write(device_addr, bytes): the address bytes adr, then the payload
twi_write(c, dev, reg, adr, data) ==
    LET ack == Head(c.acks)
        tx == [kind |-> "W", dev |-> dev, adr |-> adr, data |-> data,
               len |-> Len(data), ack |-> ack]
        d == c.bus[dev]
        d2 == IF dev = DS1307 THEN DsWrite(d, reg, data) ELSE EeWrite(d, reg, data)
    IN  [c EXCEPT !.txs = Append(@, tx),
                  !.acks = Tail(@),
                  !.st = IF ack THEN @ ELSE I2C_ERR,
                  !.bus = IF ack THEN [@ EXCEPT ![dev] = d2] ELSE @]

\* read(device_addr, length)
twi_read(c, dev, n) ==
    LET ack == Head(c.acks)
        d == c.bus[dev]
        got == IF ack THEN DevRead(d, DevSize(dev), n) ELSE <<>>
        tx == [kind |-> "R", dev |-> dev, adr |-> <<>>, data |-> <<>>,
               len |-> n, ack |-> ack]
    IN  [c EXCEPT !.txs = Append(@, tx),
                  !.acks = Tail(@),
                  !.st = IF ack THEN @ ELSE I2C_ERR,
                  !.rd = got,
                  !.bus = IF ack
                          THEN [@ EXCEPT ![dev].ptr = (d.ptr + n) % DevSize(dev)]
                          ELSE @]

---------------------------------------------------------------------------
(* Addressed block-transfer layer, i2c/i2c.h (design text 4.1, 5, 7) *)

\* the register address on the wire: one byte, or two with the high byte first
Addr8(reg) == <<ToUint(8, reg)>>
Addr16(reg) == <<ToUint(16, reg) \div 256, ToUint(16, reg) % 256>>

i2c_wr_addr_blk(c, dev, reg, buf, len) ==
    twi_write(c, dev, ToUint(8, reg), Addr8(reg), Bytes(buf, len))

i2c_wr_addr_byte(c, dev, reg, val) ==
    twi_write(c, dev, ToUint(8, reg), Addr8(reg), <<ToUint(8, val)>>)

i2c_wr_addr16_blk(c, dev, reg, buf, len) ==
    twi_write(c, dev, ToUint(16, reg), Addr16(reg), Bytes(buf, len))

\* always two transactions: the pointer-set write, then the data read
i2c_rd_addr_blk(c, dev, reg, len) ==
    twi_read(twi_write(c, dev, ToUint(8, reg), Addr8(reg), <<>>), dev, len)

i2c_rd_addr16_blk(c, dev, reg, len) ==
    twi_read(twi_write(c, dev, ToUint(16, reg), Addr16(reg), <<>>), dev, len)

---------------------------------------------------------------------------
(* src/main.c: the RTC and EEPROM profiles.  Each function takes the call *)
(* context and returns it with its result: has_ret (FALSE for a void       *)
(* function), ret, the length it worked with, and out, the bytes it stored *)
(* through its buffer or struct pointer (none when it stored nothing).     *)

Result(c, has_ret, ret, len, out) ==
    [bus |-> c.bus, txs |-> c.txs, has_ret |-> has_ret, ret |-> ret,
     len |-> len, out |-> out]

\* what a block read stored into the caller's buffer: the bytes of the read
\* transaction, none when it was not acknowledged
Stored(c) == c.rd

\* faulty variant of rtc_init: the clearing write stops one byte short of the region
rtc_init_short(c) ==
    LET rtc_reg == Ptr("zero", 0)
        c1 == i2c_wr_addr_blk(c, DS1307, RTC_REG_RAM_BUF_START, rtc_reg, RTC_RAM_SIZE - 1)
        c2 == i2c_wr_addr_byte(c1, DS1307, RTC_REG_START_TIME, 0)
    IN  Result(c2, FALSE, 0, RTC_RAM_SIZE - 1, <<>>)

rtc_init(c) ==
    LET rtc_reg == Ptr("zero", 0)
        c1 == i2c_wr_addr_blk(c, DS1307, RTC_REG_RAM_BUF_START, rtc_reg, RTC_RAM_SIZE)
        c2 == i2c_wr_addr_byte(c1, DS1307, RTC_REG_START_TIME, 0)
    IN  Result(c2, FALSE, 0, RTC_RAM_SIZE, <<>>)

\* faulty variant of Tens: the mask 0xF0 keeps bit 7
Tens_mask_f0(byte) == ShiftRight(BitAnd(byte, 240), 4)

\* the value of (byte & 0x70) >> 4 and of byte & 0x0F
Tens(byte) == ShiftRight(BitAnd(byte, 112), 4)
Units(byte) == BitAnd(byte, 15)

\* rtc_dat is not initialised: when the read stores nothing it holds `stale`
rtc_get_time_var(c, stale) ==
    LET c1 == i2c_rd_addr_blk(c, DS1307, RTC_REG_START_TIME, 2)
        rtc_dat == IF Len(Stored(c1)) = 2 THEN Stored(c1) ELSE stale
        sec == rtc_dat[1]
        min == rtc_dat[2]
        var == [sec_10 |-> Tens(sec), sec_1 |-> Units(sec),
                min_10 |-> Tens(min), min_1 |-> Units(min)]
    IN  Result(c1, FALSE, 0, 2, <<var.sec_10, var.sec_1, var.min_10, var.min_1>>)

\* faulty variant of rtc_get_ram_buf: a read of no bytes returns without bus traffic
rtc_get_ram_buf_skip0(c, L) ==
    LET len == ToUint(8, L)
    IN  IF len >= RTC_RAM_SIZE
        THEN Result(c, TRUE, BOUNDS_ERR, len, <<>>)
        ELSE IF len = 0
        THEN Result(c, TRUE, I2C_OK, len, <<>>)
        ELSE LET c1 == i2c_rd_addr_blk(c, DS1307, RTC_REG_RAM_BUF_START, len)
             IN  Result(c1, TRUE, c1.st, len, Stored(c1))

\* uint8_t len: the caller's length L arrives converted to 8 bits
rtc_get_ram_buf(c, L) ==
    LET len == ToUint(8, L)
    IN  IF len >= RTC_RAM_SIZE
        THEN Result(c, TRUE, BOUNDS_ERR, len, <<>>)
        ELSE LET c1 == i2c_rd_addr_blk(c, DS1307, RTC_REG_RAM_BUF_START, len)
             IN  Result(c1, TRUE, c1.st, len, Stored(c1))

rtc_set_ram_buf(c, buf, L) ==
    LET len == ToUint(8, L)
    IN  IF len >= RTC_RAM_SIZE
        THEN Result(c, TRUE, BOUNDS_ERR, len, <<>>)
        ELSE LET c1 == i2c_wr_addr_blk(c, DS1307, RTC_REG_RAM_BUF_START, buf, len)
             IN  Result(c1, TRUE, c1.st, len, <<>>)

\* uint16_t reg_idx, uint16_t len
eeprom_get_data(c, reg_idx, L) ==
    LET len == ToUint(16, L)
        reg == ToUint(16, reg_idx)
    IN  IF len >= EEPROM_SIZE
        THEN Result(c, TRUE, BOUNDS_ERR, len, <<>>)
        ELSE LET c1 == i2c_rd_addr16_blk(c, AT24C32, reg, len)
             IN  Result(c1, TRUE, c1.st, len, Stored(c1))

\* faulty variant of eeprom_set_data: the write is cut at the end of the page
eeprom_set_data_clamped(c, reg_idx, buf, L) ==
    LET len == ToUint(8, L)
        reg == ToUint(16, reg_idx)
        room == EE_PAGE - (reg % EE_PAGE)
    IN  IF len >= EEPROM_SIZE
        THEN Result(c, TRUE, BOUNDS_ERR, len, <<>>)
        ELSE LET c1 == i2c_wr_addr16_blk(c, AT24C32, reg, buf, Min(len, room))
             IN  Result(c1, TRUE, c1.st, len, <<>>)

\* faulty variant of eeprom_set_data: uint16_t len, as eeprom_get_data has it
eeprom_set_data_u16(c, reg_idx, buf, L) ==
    LET len == ToUint(16, L)
        reg == ToUint(16, reg_idx)
    IN  IF len >= EEPROM_SIZE
        THEN Result(c, TRUE, BOUNDS_ERR, len, <<>>)
        ELSE LET c1 == i2c_wr_addr16_blk(c, AT24C32, reg, buf, len)
             IN  Result(c1, TRUE, c1.st, len, <<>>)

\* uint16_t reg_idx, uint8_t len
eeprom_set_data(c, reg_idx, buf, L) ==
    LET len == ToUint(8, L)
        reg == ToUint(16, reg_idx)
    IN  IF len >= EEPROM_SIZE
        THEN Result(c, TRUE, BOUNDS_ERR, len, <<>>)
        ELSE LET c1 == i2c_wr_addr16_blk(c, AT24C32, reg, buf, len)
             IN  Result(c1, TRUE, c1.st, len, <<>>)

---------------------------------------------------------------------------
(* Inputs of the calls *)

\* lengths a caller asks the RTC accessors for (uint8_t)
RtcLens == {0, 18, 55, 56}
\* lengths a caller asks the EEPROM accessors for (16 bits, as size_t): to
\* write, and to read
EeLens == {17, 273, 4096}
EeGetLens == EeLens \cup {0, 4095}
\* register addresses of the EEPROM calls: the start, and 6 below the end
EeRegs == {0, 4090}
\* the caller's data buffers
Seeds == {1}
\* contents of the two time registers (seconds, minutes)
TimeSamples == {<<0, 0>>, <<69, 121>>}
\* what the uninitialised rtc_dat may hold
StaleSamples == {<<0, 0>>, <<89, 35>>}
\* RTC RAM at power up (battery backed, any content): every byte 0xA5
DsFills == {165}
\* every byte value
Byte == 0..255

\* acknowledgements of the n transactions of a call
Acks(n) == [1..n -> BOOLEAN]

---------------------------------------------------------------------------
(* State *)

NoCall ==
    [op |-> "none", L |-> 0, reg |-> 0, len |-> 0, buf |-> Ptr("zero", 0),
     has_ret |-> FALSE, ret |-> 0, txs |-> <<>>, out |-> <<>>]

\* the record of a finished call: its arguments and Result
Done(op, L, reg, buf, r) ==
    [op |-> op, L |-> L, reg |-> reg, len |-> r.len, buf |-> buf,
     has_ret |-> r.has_ret, ret |-> r.ret, txs |-> r.txs, out |-> r.out]

PowerUp(fill, t) ==
    [DS1307 |-> [mem |-> Normal((0 :> t[1]) @@ (1 :> t[2]), fill),
                 fill |-> fill, ptr |-> 0],
     AT24C32 |-> [mem |-> Normal(<<>>, 255), fill |-> 255, ptr |-> 0]]

InitWith(start, fills, times) ==
    /\ \E fill \in fills, t \in times : bus = PowerUp(fill, t)
    /\ last = NoCall
    /\ lastwr = [d \in {DS1307, AT24C32} |-> NoCall]
    /\ ncalls = 0
    /\ pc = start

\* the chip a function writes to, "" when it only reads
Writes(op) ==
    CASE op \in {"rtc_init", "rtc_set_ram_buf"} -> DS1307
      [] op = "eeprom_set_data" -> AT24C32
      [] OTHER -> ""

\* a call returns: the chips, the call's record, and per chip the record of
\* the latest call of a writing function
Return(op, L, reg, buf, r) ==
    /\ bus' = r.bus
    /\ last' = Done(op, L, reg, buf, r)
    /\ lastwr' = IF Writes(op) = "" THEN lastwr
                 ELSE [lastwr EXCEPT ![Writes(op)] = Done(op, L, reg, buf, r)]
    /\ ncalls' = ncalls + 1

\* the oscillator advances the time registers
Tick ==
    /\ \E t \in TimeSamples :
          /\ <<CellAt(bus[DS1307], 0), CellAt(bus[DS1307], 1)>> # t
          /\ bus' = [bus EXCEPT ![DS1307].mem =
                        Normal((0 :> t[1]) @@ (1 :> t[2]) @@ @, bus[DS1307].fill)]
    /\ UNCHANGED <<last, lastwr, ncalls, pc>>

---------------------------------------------------------------------------
(* The profile API under arbitrary calls *)

ApiOpen == pc = "api" /\ ncalls < MaxCalls

ApiRtcInit ==
    /\ ApiOpen
    /\ \E a \in Acks(2) : Return("rtc_init", 0, 0, Ptr("zero", 0), rtc_init(Ctx(bus, a)))
    /\ UNCHANGED pc

ApiRtcGetTimeVar ==
    /\ ApiOpen
    /\ \E a \in Acks(2), stale \in StaleSamples :
          Return("rtc_get_time_var", 0, 0, Ptr("zero", 0),
                 rtc_get_time_var(Ctx(bus, a), stale))
    /\ UNCHANGED pc

ApiRtcGetRamBuf ==
    /\ ApiOpen
    /\ \E a \in Acks(2), L \in RtcLens :
          Return("rtc_get_ram_buf", L, RTC_REG_RAM_BUF_START, Ptr("zero", 0),
                 rtc_get_ram_buf(Ctx(bus, a), L))
    /\ UNCHANGED pc

ApiRtcSetRamBuf ==
    /\ ApiOpen
    /\ \E a \in Acks(1), L \in RtcLens, seed \in Seeds :
          LET buf == Ptr("data", seed)
          IN  Return("rtc_set_ram_buf", L, RTC_REG_RAM_BUF_START, buf,
                     rtc_set_ram_buf(Ctx(bus, a), buf, L))
    /\ UNCHANGED pc

ApiEepromGetData ==
    /\ ApiOpen
    /\ \E a \in Acks(2), L \in EeGetLens, reg \in EeRegs :
          Return("eeprom_get_data", L, reg, Ptr("zero", 0),
                 eeprom_get_data(Ctx(bus, a), reg, L))
    /\ UNCHANGED pc

ApiEepromSetData ==
    /\ ApiOpen
    /\ \E a \in Acks(1), L \in EeLens, reg \in EeRegs, seed \in Seeds :
          LET buf == Ptr("data", seed)
          IN  Return("eeprom_set_data", L, reg, buf,
                     eeprom_set_data(Ctx(bus, a), reg, buf, L))
    /\ UNCHANGED pc

Init == InitWith("api", DsFills, {<<69, 121>>})

Next ==
    \/ ApiRtcInit
    \/ ApiRtcGetTimeVar
    \/ ApiRtcGetRamBuf
    \/ ApiRtcSetRamBuf
    \/ ApiEepromGetData
    \/ ApiEepromSetData

Spec == Init /\ [][Next]_vars

---------------------------------------------------------------------------
(* main(), lines 123-149; pc is the line of the next call *)

Main123 ==
    /\ pc = "123"
    /\ \E a \in Acks(2) : Return("rtc_init", 0, 0, Ptr("zero", 0), rtc_init(Ctx(bus, a)))
    /\ pc' = "125"

Main125 ==
    /\ pc = "125"
    /\ \E a \in Acks(1) :
          LET L == strlen(Dummy_RTC_RAM)
              buf == Ptr("Dummy_RTC_RAM", 0)
          IN  Return("rtc_set_ram_buf", L, RTC_REG_RAM_BUF_START, buf,
                     rtc_set_ram_buf(Ctx(bus, a), buf, L))
    /\ pc' = "126"

Main126 ==
    /\ pc = "126"
    /\ \E a \in Acks(1) :
          LET L == strlen(Dummy_EEPROM)
              buf == Ptr("Dummy_EEPROM", 0)
          IN  Return("eeprom_set_data", L, 0, buf,
                     eeprom_set_data(Ctx(bus, a), 0, buf, L))
    /\ pc' = "135"

Main135 ==
    /\ pc = "135"
    /\ \E a \in Acks(2) :
          LET L == strlen(Dummy_RTC_RAM)
          IN  Return("rtc_get_ram_buf", L, RTC_REG_RAM_BUF_START, Ptr("zero", 0),
                     rtc_get_ram_buf(Ctx(bus, a), L))
    /\ pc' = "138"

Main138 ==
    /\ pc = "138"
    /\ \E a \in Acks(2) :
          LET L == strlen(Dummy_EEPROM)
          IN  Return("eeprom_get_data", L, 0, Ptr("zero", 0),
                     eeprom_get_data(Ctx(bus, a), 0, L))
    /\ pc' = "146"

\* while (1): ncalls counts the five calls before the loop and its passes
Main146 ==
    /\ pc = "146"
    /\ ncalls < 5 + MaxLoops
    /\ \E a \in Acks(2), stale \in StaleSamples :
          Return("rtc_get_time_var", 0, 0, Ptr("zero", 0),
                 rtc_get_time_var(Ctx(bus, a), stale))
    /\ UNCHANGED pc

InitMain == InitWith("123", DsFills, TimeSamples)

NextMain ==
    \/ Main123
    \/ Main125
    \/ Main126
    \/ Main135
    \/ Main138
    \/ Main146
    \/ Tick

SpecMain == InitMain /\ [][NextMain]_vars

---------------------------------------------------------------------------
(* The time codec over every byte: the time registers hold any seconds    *)
(* byte with a sampled minutes byte, or any minutes byte with a sampled    *)
(* seconds byte, and the time is read.                                     *)

CodecTimes ==
    {<<b, t[2]>> : b \in Byte, t \in TimeSamples}
        \cup {<<t[1], b>> : b \in Byte, t \in TimeSamples}

InitCodec == InitWith("api", DsFills, CodecTimes)

NextCodec == ApiRtcGetTimeVar

SpecCodec == InitCodec /\ [][NextCodec]_vars

---------------------------------------------------------------------------
(* Properties *)

Accessors == {"rtc_get_ram_buf", "rtc_set_ram_buf", "eeprom_get_data", "eeprom_set_data"}
BlockReads == {"rtc_get_ram_buf", "eeprom_get_data"}

\* the declared capacity behind a function, and of a chip
Capacity(op) ==
    IF op \in {"rtc_get_ram_buf", "rtc_set_ram_buf", "rtc_init"}
    THEN RTC_RAM_SIZE ELSE EEPROM_SIZE
ChipCapacity(dev) == IF dev = DS1307 THEN RTC_RAM_SIZE ELSE EEPROM_SIZE
ChipOf(op) == IF op \in {"eeprom_get_data", "eeprom_set_data"} THEN AT24C32 ELSE DS1307

\* every transaction of the last call was acknowledged
AllAcked == \A i \in 1..Len(last.txs) : last.txs[i].ack
SomeFailed == \E i \in 1..Len(last.txs) : ~last.txs[i].ack

\* tx is a write carrying the address bytes adr and the payload data
IsWrite(tx, dev, adr, data) ==
    tx.kind = "W" /\ tx.dev = dev /\ tx.adr = adr /\ tx.data = data
\* tx is a read of n bytes
IsRead(tx, dev, n) == tx.kind = "R" /\ tx.dev = dev /\ tx.len = n

\* the RAM region of the DS1307, registers 0x08..0x3F
RamCells == RTC_REG_RAM_BUF_START..(RTC_REG_RAM_BUF_START + RTC_RAM_SIZE - 1)
RamIsZero == \A a \in RamCells : CellAt(bus[DS1307], a) = 0

(* C1: an accessor asked for a length >= the capacity of its device returns
   the bounds error and issues no bus transaction. *)
C1_BoundsRejected ==
    (last.op \in Accessors /\ last.L >= Capacity(last.op))
        => (last.ret = BOUNDS_ERR /\ last.txs = <<>>)

(* C2: a successful block write followed by a successful block read at the
   same register address with the same length < capacity returns the bytes
   that were written (RTC RAM and EEPROM). *)
C2_RoundTrip ==
    LET w == lastwr[ChipOf(last.op)]
    IN  (/\ last.op \in BlockReads
         /\ w.op = (IF last.op = "rtc_get_ram_buf" THEN "rtc_set_ram_buf"
                                                   ELSE "eeprom_set_data")
         /\ w.reg = last.reg
         /\ w.L = last.L
         /\ last.L < Capacity(last.op)
         /\ w.ret = I2C_OK
         /\ last.ret = I2C_OK)
            => last.out = Bytes(w.buf, last.L)

\* the same for the RTC RAM region alone
C2_RoundTripRtc == last.op = "rtc_get_ram_buf" => C2_RoundTrip

(* C3: rtc_init issues the RAM-clearing write (56 zero bytes at register
   0x08) and then exactly one control write, of value 0 to register 0x00;
   once it has returned with the RAM-clearing write acknowledged, all 56
   bytes of the RAM region are zero. *)
C3_InitClearsRam ==
    LET w == lastwr[DS1307]
    IN  w.op = "rtc_init" =>
           /\ Len(w.txs) = 2
           /\ IsWrite(w.txs[1], DS1307, <<RTC_REG_RAM_BUF_START>>, [i \in 1..RTC_RAM_SIZE |-> 0])
           /\ IsWrite(w.txs[2], DS1307, <<RTC_REG_START_TIME>>, <<0>>)
           /\ Cardinality({i \in 1..Len(w.txs) : w.txs[i].adr = <<RTC_REG_START_TIME>>}) = 1
           /\ w.txs[1].ack => RamIsZero

C3_Witness ==
    /\ last.op = "rtc_init"
    /\ AllAcked
    /\ bus[DS1307].fill # 0
    /\ RamIsZero

(* C4: every block transfer issued is shorter than the capacity of its
   device. *)
C4_TransfersBelowCapacity ==
    \A i \in 1..Len(last.txs) : last.txs[i].len < ChipCapacity(last.txs[i].dev)

(* C5: when a bus transaction of an operation fails, the operation returns a
   value and that value reports the failure. *)
C5_NoBusErrorSwallowed ==
    SomeFailed => (last.has_ret /\ last.ret # I2C_OK)

(* C6: the time read is a pointer-set to register 0x00 and a read of two
   bytes, seconds then minutes; for every byte the decoded units digit is
   byte mod 16 and the tens digit is (byte div 16) mod 8, whatever bit 7 and
   whether or not the byte is valid BCD. *)
C6_TimeCodec ==
    (last.op = "rtc_get_time_var" /\ AllAcked) =>
        LET sec == CellAt(bus[DS1307], RTC_REG_START_TIME)
            min == CellAt(bus[DS1307], RTC_REG_START_TIME + 1)
        IN  /\ IsWrite(last.txs[1], DS1307, <<RTC_REG_START_TIME>>, <<>>)
            /\ IsRead(last.txs[2], DS1307, 2)
            /\ last.out = <<(sec \div 16) % 8, sec % 16, (min \div 16) % 8, min % 16>>
            /\ sec = 69 => (last.out[1] = 4 /\ last.out[2] = 5)
            /\ sec = 0 => (last.out[1] = 0 /\ last.out[2] = 0)
            /\ sec = 121 => (last.out[1] = 7 /\ last.out[2] = 9)
            /\ min = 121 => (last.out[3] = 7 /\ last.out[4] = 9)

\* a seconds byte with bit 7 set and a low nibble that is no decimal digit
C6_Witness ==
    /\ last.op = "rtc_get_time_var"
    /\ AllAcked
    /\ CellAt(bus[DS1307], RTC_REG_START_TIME) = 255
    /\ last.out[1] = 7
    /\ last.out[2] = 15

(* C7: a block read with a valid length, zero included, issues exactly two
   bus transactions: the pointer-set write carrying only the encoded
   register address, then the data read of that length. *)
C7_ReadIsTwoTransactions ==
    (last.op \in BlockReads /\ last.L < Capacity(last.op)) =>
        /\ Len(last.txs) = 2
        /\ IsWrite(last.txs[1], ChipOf(last.op),
                   IF last.op = "rtc_get_ram_buf" THEN Addr8(last.reg) ELSE Addr16(last.reg),
                   <<>>)
        /\ IsRead(last.txs[2], ChipOf(last.op), last.L)

C7_Witness ==
    /\ last.op = "eeprom_get_data"
    /\ last.L = 0
    /\ Len(last.txs) = 2
    /\ last.txs[2].kind = "R"

\* main has made its five calls and the EEPROM write and read both succeeded
DemoDone ==
    /\ pc = "146"
    /\ last.op = "eeprom_get_data"
    /\ last.ret = I2C_OK
    /\ lastwr[AT24C32].op = "eeprom_set_data"
    /\ lastwr[AT24C32].ret = I2C_OK

(* C8: in the demo, 18 bytes of "EEPROM_Dummy_data" are written to EEPROM
   address 0, 18 bytes are read from address 0, and they are equal. *)
C8_Demo18 ==
    DemoDone =>
        /\ lastwr[AT24C32].reg = 0 /\ last.reg = 0
        /\ lastwr[AT24C32].txs[1].len = 18
        /\ last.txs[2].len = 18
        /\ last.out = SubSeq(Dummy_EEPROM, 1, 18)

(* C8, amended: the demo writes the 17 characters of "EEPROM_Dummy_data",
   without the terminating NUL, to EEPROM address 0, reads 17 bytes from
   address 0, and they are equal to the 17 characters. *)
C8_Demo17 ==
    DemoDone =>
        /\ lastwr[AT24C32].reg = 0 /\ last.reg = 0
        /\ lastwr[AT24C32].txs[1].len = 17
        /\ last.txs[2].len = 17
        /\ last.out = SubSeq(Dummy_EEPROM, 1, 17)

C8_Witness == DemoDone /\ Len(last.out) = 17 /\ last.out[17] = 97

(* C9: an accepted eeprom_set_data call issues exactly one bus write: the
   16-bit register address, high byte first, then the len payload bytes. *)
C9_SingleWrite ==
    (last.op = "eeprom_set_data" /\ last.ret # BOUNDS_ERR) =>
        /\ Len(last.txs) = 1
        /\ IsWrite(last.txs[1], AT24C32,
                   <<last.reg \div 256, last.reg % 256>>, Bytes(last.buf, last.len))

\* a write that crosses the end of a page and the end of the EEPROM
C9_Witness ==
    /\ last.op = "eeprom_set_data"
    /\ last.reg = 4090
    /\ last.len = 17
    /\ Len(last.txs) = 1
    /\ last.txs[1].len = 17

(* C10: eeprom_set_data never returns the bounds error, always reaches the
   bus, and transfers L mod 256 bytes; eeprom_get_data rejects every length
   from 4096 up and transfers any smaller length as it is. *)
C10_SetLengthIs8Bit ==
    /\ last.op = "eeprom_set_data" =>
          /\ last.ret # BOUNDS_ERR
          /\ Len(last.txs) >= 1
          /\ last.txs[1].len = last.L % 256
    /\ (last.op = "eeprom_get_data" /\ last.L >= EEPROM_SIZE) =>
          (last.ret = BOUNDS_ERR /\ last.txs = <<>>)
    /\ (last.op = "eeprom_get_data" /\ last.L < EEPROM_SIZE) =>
          (last.ret # BOUNDS_ERR /\ last.txs[2].len = last.L)

\* a request of 4096 bytes goes out as a write of no bytes
C10_Witness ==
    /\ last.op = "eeprom_set_data"
    /\ last.L = 4096
    /\ last.ret = I2C_OK
    /\ last.txs[1].len = 0

=============================================================================
